---- MODULE Spec2Model ----
(***************************************************************************)
(* A model of the serverless handlers of the BytescribeTeam repository:    *)
(*   - the async-job emulation of the crawler handler and of the           *)
(*     text-to-speech handler (job records in object storage, background   *)
(*     re-invocation, status polling);                                     *)
(*   - the dispatch of the crawler's lambda_handler;                       *)
(*   - the video-assembly handler (ordering, archival, temp files) and its *)
(*     move_s3_object;                                                     *)
(*   - the synchronous crawl (media upload, summarization), the caption    *)
(*     batch, the bullet summary, the wiki credentials, the page fetch     *)
(*     and the text chunking of the crawler.                               *)
(* Each part has its own specification over its own variables; the other   *)
(* variables stay at their initial values.                                 *)
(***************************************************************************)
EXTENDS Naturals, Integers, Sequences, FiniteSets, TLC

VARIABLES
    \* ---- async jobs (crawler handler.py, elevenlabs-poc lambda_function.py)
    loc,         \* request -> the locals of the invocation serving it:
                 \*   kind ("none" | "crawler" | "tts"), nseg (number of highlights),
                 \*   upi (index of the upload loop), summary (what the crawler's
                 \*   summarization returned), pc (position in the code)
    async,       \* request -> the request's async flag
    resp,        \* request -> status code the front handler returned (0: none yet)
    invoked,     \* request -> whether the 'process_job' invocation was issued
    jobStore,    \* job_id -> content of the object jobs/<job_id>.json
    audioStore,  \* i -> the job whose audio is at input/highlight<i>/audio<i>.mp3 (0: none)
    manifest,    \* content of input/highlights.json: the job's id and its entries
    lastWrite,   \* job_id -> body of the most recent completed put of jobs/<job_id>.json
    lastPutOk,   \* job_id -> whether the job's latest update_job_status call succeeded
    lastPoll,    \* the job_status poll just answered: code, body, and the write it
                 \* should show (none once another step was taken)
    \* ---- dispatch of the crawler's lambda_handler (handler.py)
    ev,          \* the event being handled, with the environment it runs in
    dpc,         \* position of the handler
    ops,         \* the operations the handler has performed, in order
    got,         \* outcome of the handler's latest get_object ("none": not called)
    out,         \* what the handler returned or raised
    \* ---- video assembly (video-processor-lambda lambda_function.py)
    highlights_data, \* the manifest's segments, as listed in highlights.json
    vpc,         \* position of the handler
    run,         \* the handler's locals: i (index of the segment loop),
                 \*   intermediate_video_paths, successful_audio_keys, k (index of
                 \*   the archival loop)
    fs,          \* the handler's files under /tmp: dirs (the segment folders, by
                 \*   order), vids (order -> the segment rendered in
                 \*   segment_<order>.mp4, 0: no file), json (the downloaded
                 \*   manifest), final (the final output file)
    s3,          \* the bucket: manifest and audio (objects at their original
                 \*   keys), archManifest and archAudio (objects under
                 \*   processed-input/<id>/), output (output_videos/<id>.mp4)
    finalVideo,  \* the segments whose clips make up the final video, in order
    ended,       \* how the handler ended ("none": still running)
    \* ---- synchronous crawl: media upload and summarization (handler.py)
    req,         \* the request and its page: full, bucket (an upload bucket is
                 \*   configured), helpers (the summarization helpers imported),
                 \*   resources (urls fetched with bytes), images (urls of the
                 \*   images parsed from the html)
    cpc,         \* position of the handler
    todo,        \* the resources the upload loop has still to take
    stored,      \* the resources whose bytes are in the bucket
    failed,      \* the resources for which "S3 upload or presign failed" was logged
    media_refs,  \* the list media_refs
    calls,       \* the calls of the summarization helpers, in order
    cresp,       \* the response
    \* ---- batch_caption_s3_images (app/utils/bedrock/gen_captions.py)
    s3_uris,     \* the input list
    futures,     \* index -> the future submitted for that input: its state
                 \*   ("queued", "running", "done", "collected") and what the
                 \*   worker returned or raised
    results,     \* the list results (None where nothing was stored)
    yielded,     \* the indexes of the futures as_completed has yielded, in order
    bpc,         \* position of the function
    \* ---- summarize_and_select_images (app/utils/bedrock/bedrock_runtime.py)
    sargs,       \* the call: model_id (given or not), profile (whether
                 \*   CLAUDE_INFERENCE_PROFILE_ARN is set), images (whether an image
                 \*   has an S3 uri)
    spc,         \* position of the function
    tried,       \* how many of try_models the loop has taken
    last_exc,    \* the local last_exc: the kind of the exception, "none" for None
    model_out,   \* the local out: "none", "content" or "empty" (no content)
    returned,    \* what the function returned or raised ("none": still running)
    \* ---- get_confluence_credentials (crawler/secrets.py)
    environ,     \* the environment: creds (what the CONFLUENCE_* credential
                 \*   variables hold) and secret_name (CONFLUENCE_SECRET_NAME is set)
    secret,      \* what Secrets Manager answers for the secret
    boto3,       \* whether boto3 could be imported
    cached_secret, \* the module's _cached_secret
    ncalls,      \* how many calls were made
    sm_calls,    \* how many of them called get_secret_value
    env_reads,   \* how many of them read the credential variables
    first,       \* what the first call returned
    last,        \* what the latest call returned
    \* ---- fetch_html (crawler/fetcher.py)
    fargs,       \* the call: max_retries, backoff, and rest_url (whether the
                 \*   url's path contains /rest/api/content)
    fpc,         \* position of the function
    attempt,     \* the local attempt
    gets,        \* how many GET requests were issued for the page url
    slept,       \* the durations passed to time.sleep, in order
    fret,        \* what the function returned ("none": still running)
    \* ---- move_s3_object (video-processor-lambda/lambda_function.py)
    margs,       \* the call: old_key, new_key, and the body at old_key before it
    mpc,         \* position of the function
    objects,     \* the bucket: key -> body of the object (Absent: no object)
    mlog,        \* what the function printed, in order
    mret,        \* how the call ended ("running": it has not)
    \* ---- chunk_text (crawler/processor.py)
    text,        \* the argument text, a sequence of characters
    chunk_size,  \* the argument chunk_size
    overlap,     \* the argument overlap
    start,       \* the local start
    chunks,      \* the list chunks: (start, end, chunk) records
    kpc          \* position of the function ("raised": ValueError)

jobVars == <<loc, async, resp, invoked, jobStore, audioStore, manifest, lastWrite,
             lastPutOk, lastPoll>>

dispatchVars == <<ev, dpc, ops, got, out>>

videoVars == <<highlights_data, vpc, run, fs, s3, finalVideo, ended>>

crawlVars == <<req, cpc, todo, stored, failed, media_refs, calls, cresp>>

batchVars == <<s3_uris, futures, results, yielded, bpc>>

summaryVars == <<sargs, spc, tried, last_exc, model_out, returned>>

secretsVars == <<environ, secret, boto3, cached_secret, ncalls, sm_calls, env_reads, first, last>>

fetchVars == <<fargs, fpc, attempt, gets, slept, fret>>

moveVars == <<margs, mpc, objects, mlog, mret>>

chunkVars == <<text, chunk_size, overlap, start, chunks, kpc>>

vars == <<jobVars, dispatchVars, videoVars, crawlVars, batchVars, summaryVars,
          secretsVars, fetchVars, moveVars, chunkVars>>

otherThanJobs == <<dispatchVars, videoVars, crawlVars, batchVars, summaryVars,
                   secretsVars, fetchVars, moveVars, chunkVars>>
otherThanDispatch == <<jobVars, videoVars, crawlVars, batchVars, summaryVars,
                       secretsVars, fetchVars, moveVars, chunkVars>>

otherThanVideo == <<jobVars, dispatchVars, crawlVars, batchVars, summaryVars,
                    secretsVars, fetchVars, moveVars, chunkVars>>

otherThanCrawl == <<jobVars, dispatchVars, videoVars, batchVars, summaryVars,
                    secretsVars, fetchVars, moveVars, chunkVars>>

otherThanBatch == <<jobVars, dispatchVars, videoVars, crawlVars, summaryVars,
                    secretsVars, fetchVars, moveVars, chunkVars>>

otherThanSummary == <<jobVars, dispatchVars, videoVars, crawlVars, batchVars,
                      secretsVars, fetchVars, moveVars, chunkVars>>

otherThanSecrets == <<jobVars, dispatchVars, videoVars, crawlVars, batchVars,
                      summaryVars, fetchVars, moveVars, chunkVars>>

otherThanFetch == <<jobVars, dispatchVars, videoVars, crawlVars, batchVars,
                    summaryVars, secretsVars, moveVars, chunkVars>>

otherThanMove == <<jobVars, dispatchVars, videoVars, crawlVars, batchVars, summaryVars,
                   secretsVars, fetchVars, chunkVars>>

otherThanChunk == <<jobVars, dispatchVars, videoVars, crawlVars, batchVars,
                    summaryVars, secretsVars, fetchVars, moveVars>>

\* ------------------------------------------------------------------ bounds
MaxJobs == 2
MaxHighlights == 1
MaxSegs == 2
MaxUrls == 2
MaxLen == 4
MaxKeys == 3
MaxRetries == 3
MaxCalls == 2
MaxModels == 2
MaxUris == 3

Jobs == 1..MaxJobs
Highlights == 1..MaxHighlights

\* ------------------------------------------------------------------ storage
\* An absent object (get_object raises NoSuchKey).
NoObject == [status |-> "absent"]

\* context.aws_request_id of the front invocation and of the background one.
FrontRequestId(j) == 2 * j - 1
BackRequestId(j) == 2 * j

Opt(field, value) == IF value = "" THEN <<>> ELSE (field :> value)

\* The initial job record of the crawler handler.
CrawlerInitialRecord(j) ==
    [job_id |-> j, status |-> "processing", created_at |-> FrontRequestId(j),
     url |-> "url", progress |-> "Starting image analysis and summarization..."]

\* The initial job record of the text-to-speech handler.
TtsInitialRecord(j) ==
    [job_id |-> j, status |-> "processing", created_at |-> FrontRequestId(j),
     progress |-> "Starting to convert text to speech..."]

InitialRecord(j) ==
    IF loc[j].kind = "crawler" THEN CrawlerInitialRecord(j) ELSE TtsInitialRecord(j)

\* The record update_job_status builds: progress, result and error are left
\* out when falsy.
JobUpdate(j, status, progress, result, error) ==
    [job_id |-> j, status |-> status, updated_at |-> BackRequestId(j)]
        @@ Opt("progress", progress) @@ Opt("result", result) @@ Opt("error", error)

\* A faulty variant of PutObject: the new fields are merged into the stored object.
PutObjectMerging(store, j, body) ==
    [store EXCEPT ![j] = IF store[j] = NoObject THEN body ELSE body @@ store[j]]

\* s3.put_object on jobs/<job_id>.json: the whole object is replaced.
PutObject(store, j, body) == [store EXCEPT ![j] = body]

\* A successful put of a job record, and the write a later poll should show.
PutJobRecord(j, body) ==
    /\ jobStore' = PutObject(jobStore, j, body)
    /\ lastWrite' = [lastWrite EXCEPT ![j] = body]

\* No poll has just been answered.
NoPoll == [code |-> 0, body |-> NoObject, expected |-> NoObject]

\* ------------------------------------------------------------------ invocations
\* The locals of a request that has not arrived.
NoLocals == [kind |-> "none", nseg |-> 0, upi |-> 0, summary |-> "", pc |-> "idle"]

\* The invocation moves on; once it has returned ("done": the handler answered
\* without a background job, "returned": _process_async_job returned) its
\* locals are gone.
Goto(r, next) ==
    loc' = [loc EXCEPT ![r] =
              IF next \in {"done", "returned"} THEN [NoLocals EXCEPT !.pc = next]
              ELSE [@ EXCEPT !.pc = next]]

\* The next request to arrive: requests are numbered in arrival order.
CanArrive(r) ==
    loc[r].pc = "idle" /\ (IF r = 1 THEN TRUE ELSE loc[r - 1].pc # "idle")

\* Where an exception raised by convert_text_to_speech / upload_file_to_s3 goes:
\* the sync handler answers 500, the background job marks the job failed.
Raise(r) ==
    IF async[r]
    THEN Goto(r, "mark_failed") /\ resp' = resp
    ELSE Goto(r, "done") /\ resp' = [resp EXCEPT ![r] = 500]

\* ------------------------------------------------------------------ front handlers
\* Text-to-speech lambda_handler up to the mode switch: a request without text
\* is answered 400; otherwise a fresh job_id is drawn (uuid4: the request's own).
TtsRequest(r) ==
    /\ CanArrive(r)
    /\ \E n \in 0..MaxHighlights, a \in BOOLEAN :
         IF n = 0
         THEN /\ Goto(r, "done")
              /\ resp' = [resp EXCEPT ![r] = 400]
              /\ async' = async
         ELSE /\ loc' = [loc EXCEPT ![r] = [NoLocals EXCEPT !.kind = "tts", !.nseg = n,
                                             !.pc = IF a THEN "put" ELSE "convert"]]
              /\ async' = [async EXCEPT ![r] = a]
              /\ resp' = resp
    /\ lastPoll' = NoPoll
    /\ UNCHANGED <<invoked, jobStore, audioStore, manifest, lastWrite, lastPutOk>>
    /\ UNCHANGED otherThanJobs

\* Crawler lambda_handler reaching its async branch with a fresh job_id.
CrawlerAsyncRequest(r) ==
    /\ CanArrive(r)
    /\ loc' = [loc EXCEPT ![r] = [NoLocals EXCEPT !.kind = "crawler", !.pc = "put"]]
    /\ async' = [async EXCEPT ![r] = TRUE]
    /\ lastPoll' = NoPoll
    /\ UNCHANGED <<resp, invoked, jobStore, audioStore, manifest, lastWrite, lastPutOk>>
    /\ UNCHANGED otherThanJobs

\* A faulty variant of HandlerPut: a failed write of the initial record is ignored.
HandlerPutUnchecked(r) ==
    /\ loc[r].pc = "put"
    /\ Goto(r, "invoke")
    /\ \/ PutJobRecord(r, InitialRecord(r))
       \/ UNCHANGED <<jobStore, lastWrite>>
    /\ lastPoll' = NoPoll
    /\ UNCHANGED <<async, resp, invoked, audioStore, manifest, lastPutOk>>
    /\ UNCHANGED otherThanJobs

\* The handler writes the initial job record; a failure of put_object is
\* answered 500.
HandlerPut(r) ==
    /\ loc[r].pc = "put"
    /\ \/ /\ PutJobRecord(r, InitialRecord(r))
          /\ Goto(r, "invoke")
          /\ resp' = resp
       \/ /\ Goto(r, "done")
          /\ resp' = [resp EXCEPT ![r] = 500]
          /\ UNCHANGED <<jobStore, lastWrite>>
    /\ lastPoll' = NoPoll
    /\ UNCHANGED <<async, invoked, audioStore, manifest, lastPutOk>>
    /\ UNCHANGED otherThanJobs

\* The handler invokes itself asynchronously with action 'process_job'; a
\* failure of the invocation is answered 500.
HandlerInvoke(r) ==
    /\ loc[r].pc = "invoke"
    /\ \/ /\ Goto(r, "respond")
          /\ invoked' = [invoked EXCEPT ![r] = TRUE]
          /\ resp' = resp
       \/ /\ Goto(r, "done")
          /\ resp' = [resp EXCEPT ![r] = 500]
          /\ invoked' = invoked
    /\ lastPoll' = NoPoll
    /\ UNCHANGED <<async, jobStore, audioStore, manifest, lastWrite, lastPutOk>>
    /\ UNCHANGED otherThanJobs

\* The handler answers 202 with the job_id; the invocation waits for delivery.
HandlerRespond(r) ==
    /\ loc[r].pc = "respond"
    /\ Goto(r, "queued")
    /\ resp' = [resp EXCEPT ![r] = 202]
    /\ lastPoll' = NoPoll
    /\ UNCHANGED <<async, invoked, jobStore, audioStore, manifest, lastWrite, lastPutOk>>
    /\ UNCHANGED otherThanJobs

\* ------------------------------------------------------------------ background job
\* A status write of the background job: update_job_status(status, ...).  A
\* failure of put_object raises inside _process_async_job; the except branch
\* swallows a failure of its own write.
UpdateJobStatus(r, status, progress, result, error, next) ==
    \/ /\ PutJobRecord(r, JobUpdate(r, status, progress, result, error))
       /\ lastPutOk' = [lastPutOk EXCEPT ![r] = TRUE]
       /\ Goto(r, next)
    \/ /\ lastPutOk' = [lastPutOk EXCEPT ![r] = FALSE]
       /\ Goto(r, IF status = "failed" THEN next ELSE "mark_failed")
       /\ UNCHANGED <<jobStore, lastWrite>>

\* The 'process_job' event is delivered: _process_async_job starts.
Deliver(r) ==
    /\ loc[r].pc = "queued"
    /\ Goto(r, "proc1")
    /\ lastPoll' = NoPoll
    /\ UNCHANGED <<async, resp, invoked, jobStore, audioStore, manifest, lastWrite,
                   lastPutOk>>
    /\ UNCHANGED otherThanJobs

\* The first status write of the background job.
BgProcessing(r) ==
    /\ loc[r].pc = "proc1"
    /\ IF loc[r].kind = "crawler"
       THEN UpdateJobStatus(r, "processing", "Generating captions and summary...", "", "",
                            "summarize")
       ELSE UpdateJobStatus(r, "processing", "Generating audio...", "", "", "convert")
    /\ lastPoll' = NoPoll
    /\ UNCHANGED <<async, resp, invoked, audioStore, manifest>>
    /\ UNCHANGED otherThanJobs

\* Crawler: the summarization helper that is available is called.
\* summarize_and_select_images returns a list of bullets, summarize_page a dict
\* or raises, and with no helper summary_resp stays None.
BgSummarize(r) ==
    /\ loc[r].pc = "summarize"
    /\ \E helper \in {"select", "page", "none"}, raises \in BOOLEAN :
         /\ raises => helper = "page"
         /\ loc' = [loc EXCEPT ![r] =
                      IF raises THEN [@ EXCEPT !.pc = "mark_failed"]
                      ELSE [@ EXCEPT !.pc = "mark_completed",
                                     !.summary = CASE helper = "select" -> "bullets"
                                                   [] helper = "page" -> "dict"
                                                   [] OTHER -> "null"]]
    /\ lastPoll' = NoPoll
    /\ UNCHANGED <<async, resp, invoked, jobStore, audioStore, manifest, lastWrite,
                   lastPutOk>>
    /\ UNCHANGED otherThanJobs

\* convert_text_to_speech: every segment is converted and saved, or it raises.
Convert(r) ==
    /\ loc[r].pc = "convert"
    /\ \/ /\ loc' = [loc EXCEPT ![r] = [@ EXCEPT !.pc = IF async[r] THEN "proc2"
                                                         ELSE "upload",
                                                  !.upi = IF async[r] THEN 0 ELSE 1]]
          /\ resp' = resp
       \/ Raise(r)
    /\ lastPoll' = NoPoll
    /\ UNCHANGED <<async, invoked, jobStore, audioStore, manifest, lastWrite, lastPutOk>>
    /\ UNCHANGED otherThanJobs

\* Text-to-speech: the second 'processing' write ("Uploading audio..."), after
\* which upload_file_to_s3 starts its loop.
BgUploading(r) ==
    /\ loc[r].pc = "proc2"
    /\ \/ /\ PutJobRecord(r, JobUpdate(r, "processing", "Uploading audio...", "", ""))
          /\ lastPutOk' = [lastPutOk EXCEPT ![r] = TRUE]
          /\ loc' = [loc EXCEPT ![r] = [@ EXCEPT !.pc = "upload", !.upi = 1]]
       \/ /\ lastPutOk' = [lastPutOk EXCEPT ![r] = FALSE]
          /\ Goto(r, "mark_failed")
          /\ UNCHANGED <<jobStore, lastWrite>>
    /\ lastPoll' = NoPoll
    /\ UNCHANGED <<async, resp, invoked, audioStore, manifest>>
    /\ UNCHANGED otherThanJobs

\* A faulty variant of UploadAudio: a failed upload is passed over and the
\* loop goes on.
UploadAudioSwallowing(r) ==
    /\ loc[r].pc = "upload"
    /\ \/ audioStore' = [audioStore EXCEPT ![loc[r].upi] = r]
       \/ audioStore' = audioStore
    /\ loc' = [loc EXCEPT ![r] =
                 IF @.upi = @.nseg THEN [@ EXCEPT !.pc = "manifest", !.upi = 0]
                 ELSE [@ EXCEPT !.upi = @ + 1]]
    /\ resp' = resp
    /\ lastPoll' = NoPoll
    /\ UNCHANGED <<async, invoked, jobStore, manifest, lastWrite, lastPutOk>>
    /\ UNCHANGED otherThanJobs

\* upload_file_to_s3, one turn of its loop: audio i is uploaded to the fixed
\* key input/highlight<i>/audio<i>.mp3, or upload_file raises.
UploadAudio(r) ==
    /\ loc[r].pc = "upload"
    /\ \/ /\ audioStore' = [audioStore EXCEPT ![loc[r].upi] = r]
          /\ loc' = [loc EXCEPT ![r] =
                       IF @.upi = @.nseg THEN [@ EXCEPT !.pc = "manifest", !.upi = 0]
                       ELSE [@ EXCEPT !.upi = @ + 1]]
          /\ resp' = resp
       \/ /\ Raise(r)
          /\ audioStore' = audioStore
    /\ lastPoll' = NoPoll
    /\ UNCHANGED <<async, invoked, jobStore, manifest, lastWrite, lastPutOk>>
    /\ UNCHANGED otherThanJobs

\* upload_file_to_s3, after the loop: the manifest input/highlights.json is
\* written with the job's id and one entry per uploaded audio, or put_object
\* raises.  The sync handler then answers 200.
PutManifest(r) ==
    /\ loc[r].pc = "manifest"
    /\ \/ /\ manifest' = [id |-> r, n |-> loc[r].nseg]
          /\ Goto(r, IF async[r] THEN "mark_completed" ELSE "done")
          /\ resp' = IF async[r] THEN resp ELSE [resp EXCEPT ![r] = 200]
       \/ /\ Raise(r)
          /\ manifest' = manifest
    /\ lastPoll' = NoPoll
    /\ UNCHANGED <<async, invoked, jobStore, audioStore, lastWrite, lastPutOk>>
    /\ UNCHANGED otherThanJobs

\* The result the crawler stores with 'completed': the response payload with
\* its summary.
CompletedResult(r) ==
    IF loc[r].kind = "crawler" THEN "payload+" \o loc[r].summary ELSE ""

CompletedProgress(r) ==
    IF loc[r].kind = "crawler" THEN "Processing completed successfully"
    ELSE "Generating audio completed successfully."

\* A faulty variant of BgCompleted: after the 'completed' write the job goes
\* on to the except branch.
BgCompletedThenRaises(r) ==
    /\ loc[r].pc = "mark_completed"
    /\ UpdateJobStatus(r, "completed", CompletedProgress(r), CompletedResult(r), "",
                       "mark_failed")
    /\ lastPoll' = NoPoll
    /\ UNCHANGED <<async, resp, invoked, audioStore, manifest>>
    /\ UNCHANGED otherThanJobs

\* The job is marked completed and _process_async_job returns 200.
BgCompleted(r) ==
    /\ loc[r].pc = "mark_completed"
    /\ UpdateJobStatus(r, "completed", CompletedProgress(r), CompletedResult(r), "",
                       "returned")
    /\ lastPoll' = NoPoll
    /\ UNCHANGED <<async, resp, invoked, audioStore, manifest>>
    /\ UNCHANGED otherThanJobs

\* A faulty variant of BgFailed: the handler of the exception returns without a write.
BgFailedSilent(r) ==
    /\ loc[r].pc = "mark_failed"
    /\ Goto(r, "returned")
    /\ lastPoll' = NoPoll
    /\ UNCHANGED <<async, resp, invoked, jobStore, audioStore, manifest, lastWrite,
                   lastPutOk>>
    /\ UNCHANGED otherThanJobs

\* The except branch: the job is marked failed; a failure of that write is
\* swallowed.  _process_async_job returns 500.
BgFailed(r) ==
    /\ loc[r].pc = "mark_failed"
    /\ UpdateJobStatus(r, "failed", "", "", "exception", "returned")
    /\ lastPoll' = NoPoll
    /\ UNCHANGED <<async, resp, invoked, audioStore, manifest>>
    /\ UNCHANGED otherThanJobs

\* ------------------------------------------------------------------ polling
\* A job_status poll: get_object on jobs/<job_id>.json.  200 with the stored
\* record, 404 when there is none, 500 on another storage error.  One answer
\* is observed at a time.
Poll(j) ==
    /\ lastPoll = NoPoll
    /\ \E fails \in BOOLEAN :
         lastPoll' =
            IF fails THEN [NoPoll EXCEPT !.code = 500]
            ELSE IF jobStore[j] = NoObject THEN [NoPoll EXCEPT !.code = 404]
            ELSE [code |-> 200, body |-> jobStore[j], expected |-> lastWrite[j]]
    /\ UNCHANGED <<loc, async, resp, invoked, jobStore, audioStore, manifest, lastWrite,
                   lastPutOk>>
    /\ UNCHANGED otherThanJobs

\* ------------------------------------------------------------------ specification
JobsInit ==
    /\ loc = [r \in Jobs |-> NoLocals]
    /\ async = [r \in Jobs |-> FALSE]
    /\ resp = [r \in Jobs |-> 0]
    /\ invoked = [r \in Jobs |-> FALSE]
    /\ jobStore = [r \in Jobs |-> NoObject]
    /\ audioStore = [i \in Highlights |-> 0]
    /\ manifest = [id |-> 0, n |-> 0]
    /\ lastWrite = [r \in Jobs |-> NoObject]
    /\ lastPutOk = [r \in Jobs |-> FALSE]
    /\ lastPoll = NoPoll

JobsNext ==
    \E r \in Jobs :
        \/ TtsRequest(r)
        \/ CrawlerAsyncRequest(r)
        \/ HandlerPut(r)
        \/ HandlerInvoke(r)
        \/ HandlerRespond(r)
        \/ Deliver(r)
        \/ BgProcessing(r)
        \/ BgSummarize(r)
        \/ Convert(r)
        \/ BgUploading(r)
        \/ UploadAudio(r)
        \/ PutManifest(r)
        \/ BgCompleted(r)
        \/ BgFailed(r)
        \/ Poll(r)

\* ------------------------------------------------------------------ crawler dispatch
\* The events lambda_handler is given, with the environment of the invocation:
\*   method     httpMethod ("POST": any other or none)
\*   topAction  the event's own 'action' field
\*   body       "absent" (direct invocation: no or empty body), "notjson" (a
\*              string json.loads rejects), "nondict" (JSON that is no object)
\*              or "dict"
\*   bodyAction the 'action' field of a dict body
\*   hasJobId, hasUrl, wantAsync, full: fields of the body (of the event itself
\*              in a direct invocation)
\*   bucket     whether S3_UPLOAD_BUCKET / BUCKET_NAME is configured
\*   helpers    whether a summarization helper could be imported
Events ==
    {e \in [method : {"OPTIONS", "POST"},
            topAction : {"none", "process_job", "job_status"},
            body : {"absent", "notjson", "nondict", "dict"},
            bodyAction : {"none", "job_status", "check_models", "diagnostics"},
            hasJobId : BOOLEAN, hasUrl : BOOLEAN, wantAsync : BOOLEAN, full : BOOLEAN,
            bucket : BOOLEAN, helpers : BOOLEAN] :
        /\ e.body # "dict" => e.bodyAction = "none"
        /\ e.body \in {"notjson", "nondict"} =>
              ~e.hasJobId /\ ~e.hasUrl /\ ~e.wantAsync /\ ~e.full}

NoEvent ==
    [method |-> "POST", topAction |-> "none", body |-> "absent", bodyAction |-> "none",
     hasJobId |-> FALSE, hasUrl |-> FALSE, wantAsync |-> FALSE, full |-> FALSE,
     bucket |-> FALSE, helpers |-> FALSE]

\* Outcomes of s3_client.get_object: the object, a ClientError with code
\* NoSuchKey, another ClientError, or an exception that is no ClientError (a
\* connection error, a record that is not JSON).
GetOutcomes == {"ok", "NoSuchKey", "ClientError", "OtherError"}

NoOut == [status |-> 0, cors |-> FALSE, strBody |-> FALSE, raised |-> FALSE]

\* _proxy_response(status_code, payload): statusCode, the CORS headers, and the
\* payload dumped to a string.
ProxyResponse(code) == [status |-> code, cors |-> TRUE, strBody |-> TRUE, raised |-> FALSE]

\* What _process_async_job returns: statusCode and body, no headers.
PlainResponse(code) == [status |-> code, cors |-> FALSE, strBody |-> TRUE, raised |-> FALSE]

\* The handler raised: the invocation has no response.
Raised == [status |-> 0, cors |-> FALSE, strBody |-> FALSE, raised |-> TRUE]

\* body_dict.get("action"): of the parsed body, or of the event itself in a
\* direct invocation.
BodyDictAction(e) == IF e.body = "dict" THEN e.bodyAction ELSE e.topAction

\* The step a handler is at, with its response once it has one.
At(p) == [pc |-> p, out |-> NoOut]
Return(o) == [pc |-> "done", out |-> o]

\* "Extract URL from API Gateway body or direct event": a body that is not JSON
\* is answered 400, body.get on a JSON value that is no object raises, and a
\* missing url is answered 400.
ExtractUrl(e) ==
    CASE e.body = "notjson" -> Return(ProxyResponse(400))
      [] e.body = "nondict" -> Return(Raised)
      [] ~e.hasUrl -> Return(ProxyResponse(400))
      [] OTHER -> At("fetch")

\* The job_status branch up to its get_object call: a missing job_id is
\* answered 400, a missing bucket 500.
StatusCheckEarly(e) ==
    CASE ~e.hasJobId -> Return(ProxyResponse(400))
      [] ~e.bucket -> Return(ProxyResponse(500))
      [] OTHER -> At("status_early")

\* The check_models / diagnostics branch up to check_model_access.
ModelChecks(e) ==
    IF e.helpers THEN At("models") ELSE Return(ProxyResponse(500))

\* The head of lambda_handler: preflight, then the background job, then the
\* actions of the body, then the crawl.  An exception in the body's branch
\* (a body that is no JSON object) is swallowed and the crawl goes on.
Dispatch(e) ==
    CASE e.method = "OPTIONS" -> Return(ProxyResponse(200))
      [] e.topAction = "process_job" -> At("process_job")
      [] e.body = "dict" /\ e.bodyAction = "job_status" -> StatusCheckEarly(e)
      [] e.body = "dict" /\ e.bodyAction \in {"check_models", "diagnostics"} -> ModelChecks(e)
      [] OTHER -> ExtractUrl(e)

\* After parse_html: the "async job status request" check on body_dict, which
\* reads the locals s3_config and s3_bucket (bound only when the early branch
\* ran up to its get_object); then the summarization part, skipped when no
\* helper is available.
AfterParse(e, bound) ==
    CASE BodyDictAction(e) = "job_status" /\ ~e.hasJobId -> Return(ProxyResponse(400))
      [] BodyDictAction(e) = "job_status" /\ ~bound -> Return(Raised)
      [] BodyDictAction(e) = "job_status" -> At("status_late")
      [] ~e.helpers -> Return(ProxyResponse(200))
      [] OTHER -> At("upload")

Move(step) == dpc' = step.pc /\ out' = step.out

\* lambda_handler is invoked.
Receive ==
    /\ dpc = "start"
    /\ Move(Dispatch(ev))
    /\ UNCHANGED <<ev, ops, got>>
    /\ UNCHANGED otherThanDispatch

\* _process_async_job runs and its result is returned as it is.
ProcessJob ==
    /\ dpc = "process_job"
    /\ ops' = Append(ops, "process_job")
    /\ \E code \in {200, 500} : Move(Return(PlainResponse(code)))
    /\ UNCHANGED <<ev, got>>
    /\ UNCHANGED otherThanDispatch

\* The early job_status branch reads jobs/<job_id>.json.  An exception that is
\* no ClientError is caught by the branch's "except Exception: pass", and the
\* handler goes on to extract the url.
StatusEarly ==
    /\ dpc = "status_early"
    /\ ops' = Append(ops, "get_job")
    /\ \E g \in GetOutcomes :
         /\ got' = g
         /\ Move(CASE g = "ok" -> Return(ProxyResponse(200))
                   [] g = "NoSuchKey" -> Return(ProxyResponse(404))
                   [] g = "ClientError" -> Return(ProxyResponse(500))
                   [] OTHER -> ExtractUrl(ev))
    /\ UNCHANGED ev
    /\ UNCHANGED otherThanDispatch

\* check_model_access is called: 200 with the models, 500 when it raises.
Models ==
    /\ dpc = "models"
    /\ ops' = Append(ops, "check_models")
    /\ \E code \in {200, 500} : Move(Return(ProxyResponse(code)))
    /\ UNCHANGED <<ev, got>>
    /\ UNCHANGED otherThanDispatch

\* fetch_html / fetch_all_content: the page, None or an exception (both 502).
Fetch ==
    /\ dpc = "fetch"
    /\ ops' = Append(ops, "fetch")
    /\ \E ok \in BOOLEAN : Move(IF ok THEN At("parse") ELSE Return(ProxyResponse(502)))
    /\ UNCHANGED <<ev, got>>
    /\ UNCHANGED otherThanDispatch

\* parse_html: the parsed page, or an exception (500).
Parse ==
    /\ dpc = "parse"
    /\ ops' = Append(ops, "parse")
    /\ \E ok \in BOOLEAN :
         Move(IF ok THEN AfterParse(ev, got # "none") ELSE Return(ProxyResponse(500)))
    /\ UNCHANGED <<ev, got>>
    /\ UNCHANGED otherThanDispatch

\* The late job_status check reads jobs/<job_id>.json; only ClientError is
\* caught there.
StatusLate ==
    /\ dpc = "status_late"
    /\ ops' = Append(ops, "get_job")
    /\ \E g \in GetOutcomes :
         /\ got' = g
         /\ Move(CASE g = "ok" -> Return(ProxyResponse(200))
                   [] g = "NoSuchKey" -> Return(ProxyResponse(404))
                   [] g = "ClientError" -> Return(ProxyResponse(500))
                   [] OTHER -> Return(Raised))
    /\ UNCHANGED ev
    /\ UNCHANGED otherThanDispatch

\* The media upload pass (fetched resources exist only for a full crawl, and
\* are uploaded only with a bucket); its exceptions are swallowed.
Upload ==
    /\ dpc = "upload"
    /\ ops' = IF ev.bucket /\ ev.full THEN Append(ops, "upload") ELSE ops
    /\ Move(IF ev.wantAsync THEN At("start_job") ELSE At("summarize"))
    /\ UNCHANGED <<ev, got>>
    /\ UNCHANGED otherThanDispatch

\* The async branch: the initial job record is written and the background
\* invocation issued (202), or one of them fails (500).
StartJob ==
    /\ dpc = "start_job"
    /\ ops' = Append(ops, "put_job")
    /\ \E code \in {202, 500} : Move(Return(ProxyResponse(code)))
    /\ UNCHANGED <<ev, got>>
    /\ UNCHANGED otherThanDispatch

\* The sync branch: the summarization helper is called; its failure is
\* reported in the payload (summary_error) of a 200 response.
Summarize ==
    /\ dpc = "summarize"
    /\ ops' = Append(ops, "summarize")
    /\ Move(Return(ProxyResponse(200)))
    /\ UNCHANGED <<ev, got>>
    /\ UNCHANGED otherThanDispatch

DispatchIdle ==
    /\ ev = NoEvent
    /\ dpc = "idle"
    /\ ops = <<>>
    /\ got = "none"
    /\ out = NoOut

DispatchInit ==
    /\ ev \in Events
    /\ dpc = "start"
    /\ ops = <<>>
    /\ got = "none"
    /\ out = NoOut

DispatchNext ==
    \/ Receive
    \/ ProcessJob
    \/ StatusEarly
    \/ Models
    \/ Fetch
    \/ Parse
    \/ StatusLate
    \/ Upload
    \/ StartJob
    \/ Summarize

\* ------------------------------------------------------------------ video assembly
\* A segment of the manifest: its 'order' field (NoOrder: the field is missing)
\* and whether it has an 'audio' key.  A segment is known by its place in the
\* manifest, and its audio object by the same number.
NoOrder == -1
Orders == 0..(MaxSegs - 1)
Segments == [order : Orders \cup {NoOrder}, audio : BOOLEAN]
Manifests == UNION {[1..n -> Segments] : n \in 0..MaxSegs}

\* The sort key of a segment without 'order'.
MissingOrderKey == 9999

\* key=lambda x: x.get("order", 9999)
SortKey(seg) == IF seg.order = NoOrder THEN MissingOrderKey ELSE seg.order

\* list.sort is stable: x goes behind every element whose key is not greater.
RECURSIVE InsertByKey(_, _, _)
InsertByKey(m, sorted, x) ==
    IF sorted = <<>> THEN <<x>>
    ELSE IF SortKey(m[Head(sorted)]) <= SortKey(m[x])
         THEN <<Head(sorted)>> \o InsertByKey(m, Tail(sorted), x)
         ELSE <<x>> \o sorted

RECURSIVE SortUpTo(_, _)
SortUpTo(m, n) ==
    IF n = 0 THEN <<>> ELSE InsertByKey(m, SortUpTo(m, n - 1), n)

\* highlights_data.sort(key=...): the segments (their places in the manifest)
\* in the order the loop takes them.
SortByOrder(m) == SortUpTo(m, Len(m))

\* order = segment.get("order", i), for the i-th (from 0) segment of the loop.
OrderOf(m, i) ==
    LET seg == m[SortByOrder(m)[i + 1]]
    IN IF seg.order = NoOrder THEN i ELSE seg.order

NoRun == [i |-> 0, intermediate_video_paths |-> <<>>, successful_audio_keys |-> <<>>, k |-> 0]
EmptyTmp == [dirs |-> {}, vids |-> [o \in Orders |-> 0], json |-> FALSE, final |-> FALSE]
NoBucket ==
    [manifest |-> FALSE, audio |-> {}, archManifest |-> FALSE, archAudio |-> {},
     output |-> FALSE]

\* The bucket when the handler is triggered: the manifest and the audio objects
\* it names are at their original keys.
BucketOf(m) ==
    [manifest |-> TRUE, audio |-> {n \in 1..Len(m) : m[n].audio},
     archManifest |-> FALSE, archAudio |-> {}, output |-> FALSE]

\* The handler's "except Exception" branch: the final output file and the
\* downloaded manifest are removed, and the exception is raised again.
Crash(files) ==
    /\ fs' = [files EXCEPT !.final = FALSE, !.json = FALSE]
    /\ vpc' = "exit"
    /\ ended' = "raised"

\* Outcomes of move_s3_object, which swallows its exceptions: copy_object
\* raised, delete_object raised, or both were done.
MoveOutcomes == {"copy_failed", "delete_failed", "moved"}

\* Steps 1 and 2: the manifest is downloaded to /tmp and parsed, its segments
\* sorted.  A failed download leaves no file; a manifest that does not parse
\* is removed by the except branch.
DownloadManifest ==
    /\ vpc = "start"
    /\ \E ok \in BOOLEAN :
         IF ok
         THEN /\ fs' = [fs EXCEPT !.json = TRUE]
              /\ vpc' = "segments"
              /\ ended' = ended
         ELSE Crash(fs)
    /\ UNCHANGED <<highlights_data, run, s3, finalVideo>>
    /\ UNCHANGED otherThanVideo

\* One pass of the segment loop (step 4).  A segment without audio is skipped;
\* else its folder is made and its audio downloaded (on failure the folder is
\* removed and the segment skipped); create_video_from_images_and_audio then
\* returns False (nothing written), returns True (the video written to
\* segment_<order>.mp4, the path and the audio key recorded) or raises (the
\* folder stays and the except branch runs); the folder is removed.
ProcessSegment ==
    /\ vpc = "segments"
    /\ run.i < Len(highlights_data)
    /\ LET n == SortByOrder(highlights_data)[run.i + 1]
           order == OrderOf(highlights_data, run.i)
           next == [run EXCEPT !.i = run.i + 1]
       IN IF ~highlights_data[n].audio
          THEN /\ run' = next
               /\ UNCHANGED <<fs, vpc, ended>>
          ELSE \E outcome \in {"no_audio", "not_created", "created", "raised"} :
                 CASE outcome = "no_audio" ->
                        /\ run' = next
                        /\ UNCHANGED <<fs, vpc, ended>>
                   [] outcome = "not_created" ->
                        /\ run' = next
                        /\ UNCHANGED <<fs, vpc, ended>>
                   [] outcome = "created" ->
                        /\ run' = [next EXCEPT
                                     !.intermediate_video_paths = Append(@, order),
                                     !.successful_audio_keys = Append(@, n)]
                        /\ fs' = [fs EXCEPT !.vids[order] = n]
                        /\ UNCHANGED <<vpc, ended>>
                   [] OTHER ->
                        /\ run' = run
                        /\ Crash([fs EXCEPT !.dirs = @ \cup {order}])
    /\ UNCHANGED <<highlights_data, s3, finalVideo>>
    /\ UNCHANGED otherThanVideo

\* What is in the files of a list of paths (the unreadable ones left out).
RECURSIVE Clips(_, _, _)
Clips(paths, readable, vids) ==
    IF paths = <<>> THEN <<>>
    ELSE (IF Len(paths) \in readable /\ vids[paths[Len(paths)]] # 0
          THEN Clips(SubSeq(paths, 1, Len(paths) - 1), readable, vids)
                   \o <<vids[paths[Len(paths)]]>>
          ELSE Clips(SubSeq(paths, 1, Len(paths) - 1), readable, vids))

\* Step 5, combine_videos on the recorded paths (the transition clips between
\* them are no segments): the clips that can be read are concatenated in the
\* order of the list and written to the final output file; with no readable
\* clip nothing is written; an error of the concatenation or of the writing is
\* raised again.
CombineVideos ==
    /\ vpc = "segments"
    /\ run.i = Len(highlights_data)
    /\ run.intermediate_video_paths # <<>>
    /\ \E readable \in SUBSET (1..Len(run.intermediate_video_paths)), ok \in BOOLEAN :
         IF ok
         THEN /\ finalVideo' = Clips(run.intermediate_video_paths, readable, fs.vids)
              /\ fs' = [fs EXCEPT !.final = (readable # {})]
              /\ vpc' = "upload"
              /\ ended' = ended
         ELSE /\ readable = {}
              /\ finalVideo' = finalVideo
              /\ Crash(fs)
    /\ UNCHANGED <<highlights_data, run, s3>>
    /\ UNCHANGED otherThanVideo

\* upload_file of the final output file: it raises when the file is missing or
\* the upload fails.
UploadFinal ==
    /\ vpc = "upload"
    /\ \E ok \in BOOLEAN :
         IF ok /\ fs.final
         THEN /\ s3' = [s3 EXCEPT !.output = TRUE]
              /\ vpc' = "archive_manifest"
              /\ UNCHANGED <<fs, ended>>
         ELSE /\ s3' = s3
              /\ Crash(fs)
    /\ UNCHANGED <<highlights_data, run, finalVideo>>
    /\ UNCHANGED otherThanVideo

\* A faulty variant of ArchiveManifest: the manifest may be moved while the
\* final video is still to be uploaded.
ArchiveManifestEarly ==
    /\ vpc \in {"upload", "archive_manifest"}
    /\ \E outcome \in MoveOutcomes :
         s3' = [s3 EXCEPT !.archManifest = (outcome # "copy_failed"),
                          !.manifest = (outcome # "moved")]
    /\ vpc' = IF vpc = "upload" THEN "upload" ELSE "archive_audio"
    /\ UNCHANGED <<highlights_data, run, fs, finalVideo, ended>>
    /\ UNCHANGED otherThanVideo

\* Step 6 A: move_s3_object on the manifest.
ArchiveManifest ==
    /\ vpc = "archive_manifest"
    /\ \E outcome \in MoveOutcomes :
         s3' = [s3 EXCEPT !.archManifest = (outcome # "copy_failed"),
                          !.manifest = (outcome # "moved")]
    /\ vpc' = "archive_audio"
    /\ UNCHANGED <<highlights_data, run, fs, finalVideo, ended>>
    /\ UNCHANGED otherThanVideo

\* Step 6 B: move_s3_object on the next of the successful audio keys.
ArchiveAudio ==
    /\ vpc = "archive_audio"
    /\ run.k < Len(run.successful_audio_keys)
    /\ LET key == run.successful_audio_keys[run.k + 1]
       IN \E outcome \in MoveOutcomes :
            s3' = [s3 EXCEPT
                     !.archAudio = IF outcome = "copy_failed" THEN @ ELSE @ \cup {key},
                     !.audio = IF outcome = "moved" THEN @ \ {key} ELSE @]
    /\ run' = [run EXCEPT !.k = run.k + 1]
    /\ UNCHANGED <<highlights_data, vpc, fs, finalVideo, ended>>
    /\ UNCHANGED otherThanVideo

\* "Final cleanup of all local files": the files of the recorded paths, the
\* final output file and the manifest are removed, and the handler returns
\* "Video compilation <id> created and archived successfully."
ReturnArchived ==
    /\ vpc = "archive_audio"
    /\ run.k = Len(run.successful_audio_keys)
    /\ LET paths == run.intermediate_video_paths
           removed == {paths[p] : p \in 1..Len(paths)}
       IN fs' = [fs EXCEPT !.vids = [o \in Orders |-> IF o \in removed THEN 0 ELSE @[o]],
                           !.final = FALSE,
                           !.json = FALSE]
    /\ vpc' = "exit"
    /\ ended' = "archived"
    /\ UNCHANGED <<highlights_data, run, s3, finalVideo>>
    /\ UNCHANGED otherThanVideo

\* No intermediate video was created: the manifest is removed and the handler
\* returns "No intermediate videos were successfully created for compilation."
ReturnNoVideo ==
    /\ vpc = "segments"
    /\ run.i = Len(highlights_data)
    /\ run.intermediate_video_paths = <<>>
    /\ fs' = [fs EXCEPT !.json = FALSE]
    /\ vpc' = "exit"
    /\ ended' = "no_video"
    /\ UNCHANGED <<highlights_data, run, s3, finalVideo>>
    /\ UNCHANGED otherThanVideo

VideoIdle ==
    /\ highlights_data = <<>>
    /\ vpc = "idle"
    /\ run = NoRun
    /\ fs = EmptyTmp
    /\ s3 = NoBucket
    /\ finalVideo = <<>>
    /\ ended = "none"

VideoInit ==
    /\ highlights_data \in Manifests
    /\ vpc = "start"
    /\ run = NoRun
    /\ fs = EmptyTmp
    /\ s3 = BucketOf(highlights_data)
    /\ finalVideo = <<>>
    /\ ended = "none"

VideoNext ==
    \/ DownloadManifest
    \/ ProcessSegment
    \/ CombineVideos
    \/ UploadFinal
    \/ ArchiveManifest
    \/ ArchiveAudio
    \/ ReturnArchived
    \/ ReturnNoVideo

\* ------------------------------------------------------------------ synchronous crawl
\* The urls of a page's resources and images.
Urls == 1..MaxUrls

\* A synchronous crawl whose page was fetched and parsed.  helpers names the
\* summarization helpers that could be imported: summarize_and_select_images
\* ("select"), summarize_page ("page"), both or none.
Requests ==
    [full : BOOLEAN, bucket : BOOLEAN, helpers : {"both", "select", "page", "none"},
     resources : SUBSET Urls, images : SUBSET Urls]

NoRequest ==
    [full |-> FALSE, bucket |-> FALSE, helpers |-> "none", resources |-> {}, images |-> {}]

NoResponse == [status |-> 0, content |-> FALSE, uploaded_media |-> <<>>, summary |-> "none"]

\* key = f"{sha}_{parsed_name}": the digest of the url and the last part of its path.
UploadKey(u) == <<"sha", u>>
NoKey == <<>>

\* A reference to an uploaded resource, and one to an image that is only
\* named in the html.
UploadedRef(u) == [source_url |-> u, s3_key |-> UploadKey(u), presigned_url |-> TRUE]
ParsedRef(u) == [source_url |-> u, s3_key |-> NoKey, presigned_url |-> FALSE]

\* Outcomes of _upload_to_s3 for one resource.  put_object (with the ACL, and
\* again without it when the bucket rejects ACLs) and generate_presigned_url
\* each succeed, raise a ClientError (caught: the helper returns None) or raise
\* another exception (which ends the whole upload pass).
UploadOutcomes ==
    {"uploaded", "put_client_error", "presign_client_error", "put_error", "presign_error"}

RECURSIVE Ascending(_)
\* The elements of a set of urls, one after the other.
Ascending(S) ==
    IF S = {} THEN <<>>
    ELSE LET u == CHOOSE x \in S : \A y \in S : x <= y
         IN <<u>> \o Ascending(S \ {u})

RECURSIVE AppendUnmatched(_, _)
\* The images parsed from the html are added unless a reference with the same
\* source_url is in the list.
AppendUnmatched(refs, srcs) ==
    IF srcs = <<>> THEN refs
    ELSE AppendUnmatched(
           IF \E n \in 1..Len(refs) : refs[n].source_url = Head(srcs)
           THEN refs
           ELSE Append(refs, ParsedRef(Head(srcs))),
           Tail(srcs))

\* The summarization block is entered only when a helper is available; the
\* upload loop only for a full crawl with a bucket (without a bucket, or with
\* no fetched resources, the pass adds nothing to media_refs).
BeginUpload ==
    /\ cpc = "parsed"
    /\ cpc' = CASE req.helpers = "none" -> "respond"
                [] req.full /\ req.bucket -> "upload"
                [] OTHER -> "summarize"
    /\ todo' = IF req.helpers # "none" /\ req.full /\ req.bucket
               THEN Ascending(req.resources) ELSE <<>>
    /\ UNCHANGED <<req, stored, failed, media_refs, calls, cresp>>
    /\ UNCHANGED otherThanCrawl

\* A faulty variant of UploadResource: a ClientError of put_object ends the
\* request with status 500.
UploadResourceFatal ==
    /\ cpc = "upload"
    /\ todo # <<>>
    /\ \E outcome \in {"uploaded", "put_client_error"} :
         IF outcome = "uploaded"
         THEN /\ stored' = stored \cup {Head(todo)}
              /\ media_refs' = Append(media_refs, UploadedRef(Head(todo)))
              /\ UNCHANGED <<failed, cpc, cresp>>
         ELSE /\ failed' = failed \cup {Head(todo)}
              /\ cpc' = "done"
              /\ cresp' = [NoResponse EXCEPT !.status = 500]
              /\ UNCHANGED <<stored, media_refs>>
    /\ todo' = Tail(todo)
    /\ UNCHANGED <<req, calls>>
    /\ UNCHANGED otherThanCrawl

\* One pass of the upload loop: _upload_to_s3 on the next resource, and its
\* reference appended when it returned the key and the presigned url.
UploadResource ==
    /\ cpc = "upload"
    /\ todo # <<>>
    /\ \E outcome \in UploadOutcomes :
         /\ stored' = IF outcome \in {"uploaded", "presign_client_error", "presign_error"}
                      THEN stored \cup {Head(todo)} ELSE stored
         /\ failed' = IF outcome \in {"put_client_error", "presign_client_error"}
                      THEN failed \cup {Head(todo)} ELSE failed
         /\ media_refs' = IF outcome = "uploaded"
                          THEN Append(media_refs, UploadedRef(Head(todo)))
                          ELSE media_refs
         /\ cpc' = IF outcome \in {"put_error", "presign_error"} THEN "summarize" ELSE cpc
    /\ todo' = Tail(todo)
    /\ UNCHANGED <<req, calls, cresp>>
    /\ UNCHANGED otherThanCrawl

\* After the loop the images parsed from the html are added to media_refs.
MergeParsed ==
    /\ cpc = "upload"
    /\ todo = <<>>
    /\ media_refs' = AppendUnmatched(media_refs, Ascending(req.images))
    /\ cpc' = "summarize"
    /\ UNCHANGED <<req, todo, stored, failed, calls, cresp>>
    /\ UNCHANGED otherThanCrawl

\* A call of a helper: summarize_page gets media_refs in its keyword arguments
\* when the list is not empty, summarize_and_select_images gets images_json.
Call(fn) == [fn |-> fn, media_refs |-> (fn = "summarize_page" /\ media_refs # <<>>)]

\* The first call: summarize_and_select_images when it is available, else
\* summarize_page.  When it raises, summarize_page (if available) is called
\* by the except branch; without it the summary stays None.
SummarizeFirst ==
    /\ cpc = "summarize"
    /\ calls' = Append(calls, Call(IF req.helpers = "page" THEN "summarize_page"
                                   ELSE "summarize_and_select_images"))
    /\ \E ok \in BOOLEAN :
         CASE ok -> /\ cpc' = "respond"
                    /\ cresp' = [cresp EXCEPT !.summary = "summary"]
           [] ~ok /\ req.helpers = "select" -> /\ cpc' = "respond"
                                               /\ cresp' = [cresp EXCEPT !.summary = "null"]
           [] OTHER -> /\ cpc' = "fallback"
                       /\ cresp' = cresp
    /\ UNCHANGED <<req, todo, stored, failed, media_refs>>
    /\ UNCHANGED otherThanCrawl

\* The except branch calls summarize_page; its exception is raised again and
\* becomes the response's summary_error.
SummarizeFallback ==
    /\ cpc = "fallback"
    /\ calls' = Append(calls, Call("summarize_page"))
    /\ \E ok \in BOOLEAN :
         cresp' = [cresp EXCEPT !.summary = IF ok THEN "summary" ELSE "summary_error"]
    /\ cpc' = "respond"
    /\ UNCHANGED <<req, todo, stored, failed, media_refs>>
    /\ UNCHANGED otherThanCrawl

\* The response: 200 with the parsed page, uploaded_media when media_refs is
\* not empty, and the summary or, without helpers, a summary_error.
Respond ==
    /\ cpc = "respond"
    /\ cresp' = [status |-> 200,
                 content |-> TRUE,
                 uploaded_media |-> media_refs,
                 summary |-> IF req.helpers = "none" THEN "summary_error" ELSE cresp.summary]
    /\ cpc' = "done"
    /\ UNCHANGED <<req, todo, stored, failed, media_refs, calls>>
    /\ UNCHANGED otherThanCrawl

CrawlIdle ==
    /\ req = NoRequest
    /\ cpc = "idle"
    /\ todo = <<>>
    /\ stored = {}
    /\ failed = {}
    /\ media_refs = <<>>
    /\ calls = <<>>
    /\ cresp = NoResponse

CrawlInit ==
    /\ req \in Requests
    /\ cpc = "parsed"
    /\ todo = <<>>
    /\ stored = {}
    /\ failed = {}
    /\ media_refs = <<>>
    /\ calls = <<>>
    /\ cresp = NoResponse

CrawlNext ==
    \/ BeginUpload
    \/ UploadResource
    \/ MergeParsed
    \/ SummarizeFirst
    \/ SummarizeFallback
    \/ Respond

\* ------------------------------------------------------------------ caption batch
\* The default size of the thread pool.
max_workers == 2

UriNames == {"s3://b/x.png", "s3://b/y.png"}
UriLists == UNION {[1..n -> UriNames] : n \in 0..MaxUris}

None == [none |-> TRUE]

\* What caption_or_title_for_s3_image returns: the result, or the error
\* record of an exception it caught.
CaptionResult(uri, n) == [s3_uri |-> uri, result |-> <<"caption", n>>, mode |-> "caption"]
CaptionError(uri) == [s3_uri |-> uri, error |-> "error", mode |-> "caption"]

\* An exception that left the worker function.
WorkerRaised == [raised |-> TRUE]

Running == {i \in 1..Len(futures) : futures[i].state = "running"}
Queued == {i \in 1..Len(futures) : futures[i].state = "queued"}

\* results = [None] * len(s3_uris), and one future submitted per input.
SubmitAll ==
    /\ bpc = "start"
    /\ results' = [i \in 1..Len(s3_uris) |-> None]
    /\ futures' = [i \in 1..Len(s3_uris) |-> [state |-> "queued", value |-> None]]
    /\ bpc' = "pool"
    /\ UNCHANGED <<s3_uris, yielded>>
    /\ UNCHANGED otherThanBatch

\* A free worker thread takes the oldest queued task.
WorkerStart ==
    /\ bpc = "pool"
    /\ Queued # {}
    /\ Cardinality(Running) < max_workers
    /\ LET i == CHOOSE q \in Queued : \A r \in Queued : q <= r
       IN futures' = [futures EXCEPT ![i].state = "running"]
    /\ UNCHANGED <<s3_uris, results, yielded, bpc>>
    /\ UNCHANGED otherThanBatch

\* A running task ends, in any order among the running ones: the worker
\* returned a result or an error record, or raised.
WorkerFinish(i) ==
    /\ bpc = "pool"
    /\ i \in Running
    /\ \E v \in {CaptionResult(s3_uris[i], i), CaptionError(s3_uris[i]), WorkerRaised} :
         futures' = [futures EXCEPT ![i] = [state |-> "done", value |-> v]]
    /\ UNCHANGED <<s3_uris, results, yielded, bpc>>
    /\ UNCHANGED otherThanBatch

\* What the loop stores for a completed future: fut.result(), or the error
\* record it builds when fut.result() raises.
Stored(i) ==
    IF futures[i].value = WorkerRaised THEN CaptionError(s3_uris[i]) ELSE futures[i].value

\* A faulty variant of Collect: the value is stored at the next free place,
\* in the order of completion.
CollectInCompletionOrder(i) ==
    /\ bpc = "pool"
    /\ i \in 1..Len(futures)
    /\ futures[i].state = "done"
    /\ LET free == {n \in 1..Len(results) : results[n] = None}
       IN results' = [results EXCEPT ![CHOOSE n \in free : \A k \in free : n <= k] =
                                        Stored(i)]
    /\ futures' = [futures EXCEPT ![i].state = "collected"]
    /\ yielded' = Append(yielded, i)
    /\ UNCHANGED <<s3_uris, bpc>>
    /\ UNCHANGED otherThanBatch

\* as_completed yields a completed future; its value is stored at the index
\* the future was submitted for.
Collect(i) ==
    /\ bpc = "pool"
    /\ i \in 1..Len(futures)
    /\ futures[i].state = "done"
    /\ results' = [results EXCEPT ![i] = Stored(i)]
    /\ futures' = [futures EXCEPT ![i].state = "collected"]
    /\ yielded' = Append(yielded, i)
    /\ UNCHANGED <<s3_uris, bpc>>
    /\ UNCHANGED otherThanBatch

\* as_completed is exhausted once every future was yielded; the pool is shut
\* down and results returned.
ReturnResults ==
    /\ bpc = "pool"
    /\ \A i \in 1..Len(futures) : futures[i].state = "collected"
    /\ bpc' = "returned"
    /\ UNCHANGED <<s3_uris, futures, results, yielded>>
    /\ UNCHANGED otherThanBatch

BatchIdle ==
    /\ s3_uris = <<>>
    /\ futures = <<>>
    /\ results = <<>>
    /\ yielded = <<>>
    /\ bpc = "idle"

BatchInit ==
    /\ s3_uris \in UriLists
    /\ futures = <<>>
    /\ results = <<>>
    /\ yielded = <<>>
    /\ bpc = "start"

BatchNext ==
    \/ SubmitAll
    \/ WorkerStart
    \/ \E i \in 1..MaxUris : WorkerFinish(i)
    \/ \E i \in 1..MaxUris : Collect(i)
    \/ ReturnResults

\* ------------------------------------------------------------------ bullet summary
SummaryCalls == [model_id : BOOLEAN, profile : BOOLEAN, images : BOOLEAN]
NoSummaryCall == [model_id |-> FALSE, profile |-> FALSE, images |-> FALSE]

\* len(try_models): the caller's model, the inference profile, and the
\* built-in candidates (MaxModels of them here).
NumTryModels(a) ==
    (IF a.model_id THEN 1 ELSE 0) + (IF a.profile THEN 1 ELSE 0) + MaxModels

\* The exceptions of an invocation, by what the code asks of them:
\*   "profile_validation"  ClientError, code ValidationException, whose message
\*                         names an inference profile
\*   "profile_other"       ClientError of another code with such a message
\*   "client"              any other ClientError
\*   "other"               an exception that is no ClientError
ClientErrors == {"profile_validation", "profile_other", "client"}
Exceptions == ClientErrors \cup {"other"}

\* The outer "except Exception": the error is logged and [] returned.
ReturnEmpty ==
    /\ spc' = "returned"
    /\ returned' = "empty_list"

\* Captions and titles are generated for the images with an S3 uri; a failure
\* of the batch is logged and the images keep their captions.
GenerateCaptions ==
    /\ spc = "start"
    /\ spc' = "models"
    /\ UNCHANGED <<sargs, tried, last_exc, model_out, returned>>
    /\ UNCHANGED otherThanSummary

\* One pass of the loop over try_models: invoke_model and the parsing of its
\* body succeed (with or without content), raise a ClientError (the next
\* candidate is tried), or raise another exception (which reaches the outer
\* except).
InvokeModel ==
    /\ spc = "models"
    /\ tried < NumTryModels(sargs)
    /\ tried' = tried + 1
    /\ \E outcome \in {"content", "empty"} \cup Exceptions :
         CASE outcome \in {"content", "empty"} ->
                /\ model_out' = outcome
                /\ spc' = "content"
                /\ UNCHANGED <<last_exc, returned>>
           [] outcome \in {"profile_validation", "profile_other"} ->
                /\ last_exc' = outcome
                /\ spc' = "discover"
                /\ UNCHANGED <<model_out, returned>>
           [] outcome = "client" ->
                /\ last_exc' = outcome
                /\ UNCHANGED <<spc, model_out, returned>>
           [] OTHER ->
                /\ ReturnEmpty
                /\ UNCHANGED <<last_exc, model_out>>
    /\ UNCHANGED sargs
    /\ UNCHANGED otherThanSummary

\* The error named an inference profile: the accessible models not yet in
\* try_models are invoked.  None may be there (or check_model_access fails);
\* one may succeed (last_exc is cleared and the loop left); or all fail, and
\* last_exc is the exception of the last.
DiscoverModels ==
    /\ spc = "discover"
    /\ \E outcome \in {"no_model", "content", "empty"} \cup Exceptions :
         CASE outcome = "no_model" ->
                /\ spc' = "models"
                /\ UNCHANGED <<last_exc, model_out>>
           [] outcome \in {"content", "empty"} ->
                /\ model_out' = outcome
                /\ last_exc' = "none"
                /\ spc' = "content"
           [] OTHER ->
                /\ last_exc' = outcome
                /\ spc' = "models"
                /\ model_out' = model_out
    /\ UNCHANGED <<sargs, tried, returned>>
    /\ UNCHANGED otherThanSummary

\* The loop ended without a break.  For a ValidationException about inference
\* profiles a structured error (a dict) is returned; any other last_exc is
\* raised again and reaches the outer except.
AllModelsFailed ==
    /\ spc = "models"
    /\ tried = NumTryModels(sargs)
    /\ spc' = "returned"
    /\ returned' = IF last_exc = "profile_validation" THEN "error_dict" ELSE "empty_list"
    /\ UNCHANGED <<sargs, tried, last_exc, model_out>>
    /\ UNCHANGED otherThanSummary

\* What the text of the model turns out to be: JSON whose "bullets" is a list,
\* JSON whose "bullets" is another value (a string, an object, null), JSON
\* without "bullets", or text with no JSON object in it.
TextKinds == {"bullets_list", "bullets_other", "no_bullets", "not_json"}

\* The value returned for a text: _enrich_bullets returns a list enriched and
\* any other value as it is.
ParseText(kind) ==
    CASE kind = "bullets_list" -> "bullets"
      [] kind = "bullets_other" -> "not_a_list"
      [] OTHER -> "empty_list"

\* The model answered.  Without content summarize_page is tried: its exception
\* or an empty text gives [], its text is parsed.  With content the text of
\* its first entry is parsed.
ParseOutput ==
    /\ spc = "content"
    /\ spc' = "returned"
    /\ \E kind \in TextKinds, fallback \in {"text", "no_text", "raised"} :
         returned' = IF model_out = "empty" /\ fallback # "text"
                     THEN "empty_list"
                     ELSE ParseText(kind)
    /\ UNCHANGED <<sargs, tried, last_exc, model_out>>
    /\ UNCHANGED otherThanSummary

SummaryIdle ==
    /\ sargs = NoSummaryCall
    /\ spc = "idle"
    /\ tried = 0
    /\ last_exc = "none"
    /\ model_out = "none"
    /\ returned = "none"

SummaryInit ==
    /\ sargs \in SummaryCalls
    /\ spc = "start"
    /\ tried = 0
    /\ last_exc = "none"
    /\ model_out = "none"
    /\ returned = "none"

SummaryNext ==
    \/ GenerateCaptions
    \/ InvokeModel
    \/ DiscoverModels
    \/ AllModelsFailed
    \/ ParseOutput

\* ------------------------------------------------------------------ wiki credentials
\* Values a credential can have, so that a changed one can be told from the old.
Versions == {"v1", "v2"}

\* The credential variables: nothing usable (none set, or a user without a
\* token), user and token, or a bearer token alone.
EnvCreds == {<<"none">>, <<"user_only">>} \cup ({"user_token", "bearer"} \X Versions)
Environs == [creds : EnvCreds, secret_name : BOOLEAN]

\* The secret: a JSON object, another JSON value, text that is no JSON, no
\* SecretString, or an error of the client or of the call.
Secrets == {<<"empty">>, <<"error">>} \cup ({"object", "scalar", "text"} \X Versions)

NotCalled == [value |-> <<"not_called">>, raised |-> FALSE]
Returned(value) == [value |-> value, raised |-> FALSE]
Empty == <<"empty_dict">>

\* _load_from_env: user and token, else the bearer token, else None.
LoadFromEnv(e) ==
    IF e.creds[1] \in {"user_token", "bearer"}
    THEN <<"env", e.creds[1], e.creds[2]>>
    ELSE <<"None">>

\* What the Secrets Manager branch caches: the object with its keys and values
\* as strings, or {"token": secret_string} for another JSON value and for text
\* that is no JSON; {} without a SecretString and on every exception.
LoadFromSecret(s) ==
    CASE s[1] = "object" -> <<"secret", "object", s[2]>>
      [] s[1] \in {"scalar", "text"} -> <<"secret", "token", s[2]>>
      [] OTHER -> Empty

\* The value an uncached call finds: the environment first, then (with boto3
\* and a secret name) Secrets Manager.
Lookup ==
    CASE LoadFromEnv(environ) # <<"None">> -> LoadFromEnv(environ)
      [] ~boto3 \/ ~environ.secret_name -> Empty
      [] OTHER -> LoadFromSecret(secret)

\* Whether an uncached call gets as far as get_secret_value.
AsksSecretsManager ==
    LoadFromEnv(environ) = <<"None">> /\ boto3 /\ environ.secret_name

NotCached == <<"None">>

\* Bookkeeping of a call that returned or raised result.
Called(result) ==
    /\ ncalls' = ncalls + 1
    /\ last' = result
    /\ first' = IF ncalls = 0 THEN result ELSE first

\* A faulty variant of GetCredentials: the exception of Secrets Manager is
\* not caught.
GetCredentialsRaising ==
    /\ ncalls < MaxCalls
    /\ IF cached_secret # NotCached
       THEN /\ Called(Returned(cached_secret))
            /\ UNCHANGED <<cached_secret, sm_calls, env_reads>>
       ELSE /\ env_reads' = env_reads + 1
            /\ sm_calls' = IF AsksSecretsManager THEN sm_calls + 1 ELSE sm_calls
            /\ IF AsksSecretsManager /\ secret = <<"error">>
               THEN /\ cached_secret' = cached_secret
                    /\ Called([value |-> <<"exception">>, raised |-> TRUE])
               ELSE /\ cached_secret' = Lookup
                    /\ Called(Returned(Lookup))
    /\ UNCHANGED <<environ, secret, boto3>>
    /\ UNCHANGED otherThanSecrets

\* A faulty variant of GetCredentials: an empty result is not kept (the cache
\* is tested for truth, not for None).
GetCredentialsForgetful ==
    /\ ncalls < MaxCalls
    /\ IF cached_secret \notin {NotCached, Empty}
       THEN /\ Called(Returned(cached_secret))
            /\ UNCHANGED <<cached_secret, sm_calls, env_reads>>
       ELSE /\ env_reads' = env_reads + 1
            /\ sm_calls' = IF AsksSecretsManager THEN sm_calls + 1 ELSE sm_calls
            /\ cached_secret' = Lookup
            /\ Called(Returned(Lookup))
    /\ UNCHANGED <<environ, secret, boto3>>
    /\ UNCHANGED otherThanSecrets

\* get_confluence_credentials: the cache when it is not None; else the value
\* found is cached and returned.
GetCredentials ==
    /\ ncalls < MaxCalls
    /\ IF cached_secret # NotCached
       THEN /\ Called(Returned(cached_secret))
            /\ UNCHANGED <<cached_secret, sm_calls, env_reads>>
       ELSE /\ env_reads' = env_reads + 1
            /\ sm_calls' = IF AsksSecretsManager THEN sm_calls + 1 ELSE sm_calls
            /\ cached_secret' = Lookup
            /\ Called(Returned(Lookup))
    /\ UNCHANGED <<environ, secret, boto3>>
    /\ UNCHANGED otherThanSecrets

\* The environment of the process changes between calls.
ChangeEnviron ==
    /\ \E e \in Environs : e # environ /\ environ' = e
    /\ UNCHANGED <<secret, boto3, cached_secret, ncalls, sm_calls, env_reads, first, last>>
    /\ UNCHANGED otherThanSecrets

\* The secret changes, or Secrets Manager starts or stops failing.
ChangeSecret ==
    /\ \E s \in Secrets : s # secret /\ secret' = s
    /\ UNCHANGED <<environ, boto3, cached_secret, ncalls, sm_calls, env_reads, first, last>>
    /\ UNCHANGED otherThanSecrets

SecretsIdle ==
    /\ environ = [creds |-> <<"none">>, secret_name |-> FALSE]
    /\ secret = <<"empty">>
    /\ boto3 = FALSE
    /\ cached_secret = NotCached
    /\ ncalls = MaxCalls
    /\ sm_calls = 0
    /\ env_reads = 0
    /\ first = NotCalled
    /\ last = NotCalled

SecretsInit ==
    /\ environ \in Environs
    /\ secret \in Secrets
    /\ boto3 \in BOOLEAN
    /\ cached_secret = NotCached
    /\ ncalls = 0
    /\ sm_calls = 0
    /\ env_reads = 0
    /\ first = NotCalled
    /\ last = NotCalled

SecretsNext ==
    \/ GetCredentials
    \/ ChangeEnviron
    \/ ChangeSecret

\* ------------------------------------------------------------------ page fetch
Backoffs == {1, 2}
FetchCalls == [max_retries : 0..MaxRetries, backoff : Backoffs, rest_url : BOOLEAN]
NoFetchCall == [max_retries |-> 0, backoff |-> 1, rest_url |-> FALSE]

FetchReturn(value) ==
    /\ fpc' = "returned"
    /\ fret' = value

\* The url is a REST API url: it is requested once.  A stored html is
\* returned; a body that is no JSON object is returned as raw text; a
\* RequestException gives None; and JSON without body.view.value lets the
\* function go on to the normal path.
RestApiGet ==
    /\ fpc = "start"
    /\ fargs.rest_url
    /\ gets' = gets + 1
    /\ \E outcome \in {"html", "raw_text", "no_view", "request_exception"} :
         CASE outcome \in {"html", "raw_text"} -> FetchReturn("page")
           [] outcome = "request_exception" -> FetchReturn("None")
           [] OTHER -> /\ fpc' = "robots"
                       /\ fret' = fret
    /\ UNCHANGED <<fargs, attempt, slept>>
    /\ UNCHANGED otherThanFetch

\* Any other url goes to the robots check at once.
SkipRestApi ==
    /\ fpc = "start"
    /\ ~fargs.rest_url
    /\ fpc' = "robots"
    /\ UNCHANGED <<fargs, attempt, gets, slept, fret>>
    /\ UNCHANGED otherThanFetch

\* robots.txt: a disallowed url gives None.
RobotsCheck ==
    /\ fpc = "robots"
    /\ \E allowed \in BOOLEAN :
         IF allowed
         THEN /\ fpc' = "loop"
              /\ fret' = fret
         ELSE FetchReturn("None")
    /\ UNCHANGED <<fargs, attempt, gets, slept>>
    /\ UNCHANGED otherThanFetch

\* One pass of the retry loop: the page is requested; its text (or the html of
\* the REST API) is returned, or after a RequestException attempt is raised,
\* and None returned when it exceeds max_retries, else the function sleeps
\* backoff * attempt.
GetPage ==
    /\ fpc = "loop"
    /\ attempt <= fargs.max_retries
    /\ gets' = gets + 1
    /\ \E ok \in BOOLEAN :
         IF ok
         THEN /\ FetchReturn("page")
              /\ UNCHANGED <<attempt, slept>>
         ELSE /\ attempt' = attempt + 1
              /\ IF attempt + 1 > fargs.max_retries
                 THEN /\ FetchReturn("None")
                      /\ slept' = slept
                 ELSE /\ slept' = Append(slept, fargs.backoff * (attempt + 1))
                      /\ UNCHANGED <<fpc, fret>>
    /\ UNCHANGED fargs
    /\ UNCHANGED otherThanFetch

FetchIdle ==
    /\ fargs = NoFetchCall
    /\ fpc = "idle"
    /\ attempt = 0
    /\ gets = 0
    /\ slept = <<>>
    /\ fret = "none"

FetchInit ==
    /\ fargs \in FetchCalls
    /\ fpc = "start"
    /\ attempt = 0
    /\ gets = 0
    /\ slept = <<>>
    /\ fret = "none"

FetchNext ==
    \/ RestApiGet
    \/ SkipRestApi
    \/ RobotsCheck
    \/ GetPage

\* ------------------------------------------------------------------ object move
\* Keys of the bucket and bodies of its objects.
Keys == 1..MaxKeys
Bodies == {"a", "b"}
Absent == "absent"
Buckets == [Keys -> Bodies \cup {Absent}]

\* The callers pass new_key = archive_folder + <name of old_key>, so the two
\* keys differ.
MoveCalls == {c \in [old_key : Keys, new_key : Keys] : c.old_key # c.new_key}
NoMoveCall == [old_key |-> 1, new_key |-> 1, body |-> Absent]

\* "except Exception as e": the warning is printed and the function returns.
Warned ==
    /\ mlog' = Append(mlog, "WARNING")
    /\ mpc' = "done"
    /\ mret' = "returned"

\* A faulty variant of CopyObject: after a failed copy the function goes on
\* to the delete.
CopyObjectUnguarded ==
    /\ mpc = "copy"
    /\ \E ok \in BOOLEAN :
         IF ok /\ objects[margs.old_key] # Absent
         THEN /\ objects' = [objects EXCEPT ![margs.new_key] = objects[margs.old_key]]
              /\ mpc' = "delete"
              /\ UNCHANGED <<mlog, mret>>
         ELSE /\ objects' = objects
              /\ mpc' = "delete"
              /\ UNCHANGED <<mlog, mret>>
    /\ UNCHANGED margs
    /\ UNCHANGED otherThanMove

\* 1. copy_object: the body at old_key is written to new_key; it raises when
\* there is no object at old_key or the request fails.
CopyObject ==
    /\ mpc = "copy"
    /\ \E ok \in BOOLEAN :
         IF ok /\ objects[margs.old_key] # Absent
         THEN /\ objects' = [objects EXCEPT ![margs.new_key] = objects[margs.old_key]]
              /\ mpc' = "delete"
              /\ UNCHANGED <<mlog, mret>>
         ELSE /\ objects' = objects
              /\ Warned
    /\ UNCHANGED margs
    /\ UNCHANGED otherThanMove

\* 2. delete_object of old_key, then "Successfully archived"; a failed request
\* raises and leaves the object.
DeleteObject ==
    /\ mpc = "delete"
    /\ \E ok \in BOOLEAN :
         IF ok
         THEN /\ objects' = [objects EXCEPT ![margs.old_key] = Absent]
              /\ mlog' = Append(mlog, "Successfully archived")
              /\ mpc' = "done"
              /\ mret' = "returned"
         ELSE /\ objects' = objects
              /\ Warned
    /\ UNCHANGED margs
    /\ UNCHANGED otherThanMove

MoveIdle ==
    /\ margs = NoMoveCall
    /\ mpc = "idle"
    /\ objects = [k \in Keys |-> Absent]
    /\ mlog = <<>>
    /\ mret = "running"

\* The call has printed "Archiving object from ... to ..." and entered the try.
MoveInit ==
    /\ objects \in Buckets
    /\ \E c \in MoveCalls :
         margs = [old_key |-> c.old_key, new_key |-> c.new_key,
                  body |-> objects[c.old_key]]
    /\ mpc = "copy"
    /\ mlog = <<"Archiving">>
    /\ mret = "running"

MoveNext ==
    \/ CopyObject
    \/ DeleteObject

\* ------------------------------------------------------------------ text chunking
\* The texts: every character is told apart by its place, so that a chunk
\* shows which characters it holds.
Texts == {[i \in 1..n |-> i] : n \in 0..MaxLen}
ChunkSizes == -1..(MaxLen + 1)
Overlaps == (0 - MaxLen)..(MaxLen + 1)

Min(a, b) == IF a <= b THEN a ELSE b
Max(a, b) == IF a >= b THEN a ELSE b

\* text[a:b] for 0 <= a <= b <= len(text).
Slice(t, a, b) == SubSeq(t, a + 1, b)

\* The two checks of the arguments: ValueError for chunk_size <= 0 and for
\* overlap >= chunk_size; otherwise the loop is entered with start = 0.
CheckArguments ==
    /\ kpc = "check"
    /\ kpc' = IF chunk_size <= 0 \/ overlap >= chunk_size THEN "raised" ELSE "loop"
    /\ UNCHANGED <<text, chunk_size, overlap, start, chunks>>
    /\ UNCHANGED otherThanChunk

\* One pass of "while start < L": the chunk from start is appended; the loop
\* is left when the chunk ends the text, else start = max(0, end - overlap).
AppendChunk ==
    /\ kpc = "loop"
    /\ start < Len(text)
    /\ LET end == Min(start + chunk_size, Len(text))
       IN /\ chunks' = Append(chunks, [start |-> start, end |-> end,
                                       chunk |-> Slice(text, start, end)])
          /\ IF end = Len(text)
             THEN /\ kpc' = "returned"
                  /\ start' = start
             ELSE /\ kpc' = kpc
                  /\ start' = Max(0, end - overlap)
    /\ UNCHANGED <<text, chunk_size, overlap>>
    /\ UNCHANGED otherThanChunk

\* The loop condition is false: return chunks.
ReturnChunks ==
    /\ kpc = "loop"
    /\ start >= Len(text)
    /\ kpc' = "returned"
    /\ UNCHANGED <<text, chunk_size, overlap, start, chunks>>
    /\ UNCHANGED otherThanChunk

ChunkIdle ==
    /\ text = <<>>
    /\ chunk_size = 0
    /\ overlap = 0
    /\ start = 0
    /\ chunks = <<>>
    /\ kpc = "idle"

ChunkInit ==
    /\ text \in Texts
    /\ chunk_size \in ChunkSizes
    /\ overlap \in Overlaps
    /\ start = 0
    /\ chunks = <<>>
    /\ kpc = "check"

ChunkNext ==
    \/ CheckArguments
    \/ AppendChunk
    \/ ReturnChunks

\* ------------------------------------------------------------------ specifications
\* The initial states of the specification of one part: that part is about to
\* run, the others stay idle.
InitOf(part) ==
    /\ JobsInit
    /\ IF part = "dispatch" THEN DispatchInit ELSE DispatchIdle
    /\ IF part = "video" THEN VideoInit ELSE VideoIdle
    /\ IF part = "crawl" THEN CrawlInit ELSE CrawlIdle
    /\ IF part = "batch" THEN BatchInit ELSE BatchIdle
    /\ IF part = "summary" THEN SummaryInit ELSE SummaryIdle
    /\ IF part = "secrets" THEN SecretsInit ELSE SecretsIdle
    /\ IF part = "fetch" THEN FetchInit ELSE FetchIdle
    /\ IF part = "move" THEN MoveInit ELSE MoveIdle
    /\ IF part = "chunk" THEN ChunkInit ELSE ChunkIdle

\* The async jobs of the crawler and of the text-to-speech handler.
Init == InitOf("jobs")

Next == JobsNext

Spec == Init /\ [][Next]_vars

\* One invocation of the crawler's lambda_handler.
InitDispatch == InitOf("dispatch")

SpecDispatch == InitDispatch /\ [][DispatchNext]_vars

\* One invocation of the video-assembly handler.
InitVideo == InitOf("video")

SpecVideo == InitVideo /\ [][VideoNext]_vars

\* The media upload and the summarization of one synchronous crawl.
InitCrawl == InitOf("crawl")

SpecCrawl == InitCrawl /\ [][CrawlNext]_vars

\* One call of batch_caption_s3_images.
InitBatch == InitOf("batch")

SpecBatch == InitBatch /\ [][BatchNext]_vars

\* One call of summarize_and_select_images.
InitSummary == InitOf("summary")

SpecSummary == InitSummary /\ [][SummaryNext]_vars

\* Calls of get_confluence_credentials in one process whose environment changes.
InitSecrets == InitOf("secrets")

SpecSecrets == InitSecrets /\ [][SecretsNext]_vars

\* One call of fetch_html.
InitFetch == InitOf("fetch")

SpecFetch == InitFetch /\ [][FetchNext]_vars

\* One call of move_s3_object.
InitMove == InitOf("move")

SpecMove == InitMove /\ [][MoveNext]_vars

\* One call of chunk_text.
InitChunk == InitOf("chunk")

SpecChunk == InitChunk /\ [][ChunkNext]_vars

\* ------------------------------------------------------------------ claims: async jobs
Terminal == {"completed", "failed"}

\* C1: for an async request the initial record is in storage before the
\* 'process_job' invocation is issued, 202 is answered only after both the
\* write and the invocation succeeded, and an async handler that returned
\* without both answered 500.
C1_RecordThenInvokeThenAccepted ==
    \A r \in Jobs :
        /\ invoked[r] => jobStore[r] # NoObject
        /\ resp[r] = 202 => (invoked[r] /\ jobStore[r] # NoObject)
        /\ (async[r] /\ resp[r] # 0 /\ ~(invoked[r] /\ jobStore[r] # NoObject))
              => resp[r] = 500

\* C1 witness: a crawler job was accepted with 202, and a text-to-speech job
\* whose record was written but whose invocation failed was answered 500.
C1_Witness ==
    /\ resp[1] = 202 /\ "url" \in DOMAIN jobStore[1]
    /\ resp[2] = 500 /\ jobStore[2] = TtsInitialRecord(2) /\ ~invoked[2]

C4_PollReturnsLastWrite == lastPoll.code = 200 => lastPoll.body = lastPoll.expected

\* C4 witness: a poll returned a 'failed' record, written over the earlier
\* 'processing' records, that carries no progress field of theirs.
C4_Witness ==
    /\ lastPoll.code = 200
    /\ lastPoll.body.status = "failed"
    /\ "progress" \notin DOMAIN lastPoll.body

\* C5 (as stated): a storage key written on behalf of one job (its record
\* jobs/<job_id>.json, an audio file, the highlights manifest) is never
\* written on behalf of a different job.
C5_KeysUniquePerJob ==
    [][/\ \A j \in Jobs : jobStore'[j] # NoObject => jobStore'[j].job_id = j
       /\ \A i \in Highlights : audioStore[i] # 0 => audioStore'[i] = audioStore[i]
       /\ manifest.id # 0 => manifest'.id = manifest.id]_vars

\* C22: every write of a job's record carries 'processing', 'completed' or
\* 'failed'; the first write carries 'processing'; and once the record holds
\* 'completed' or 'failed' no step changes it, so a job has at most one
\* terminal write and no 'processing' write after it.
C22_ProcessingThenOneTerminal ==
    [][\A j \in Jobs :
         /\ jobStore'[j] # jobStore[j] =>
               jobStore'[j].status \in {"processing"} \cup Terminal
         /\ (jobStore[j] = NoObject /\ jobStore'[j] # NoObject) =>
               jobStore'[j].status = "processing"
         /\ jobStore[j].status \in Terminal =>
               /\ jobStore'[j] = jobStore[j]
               /\ lastWrite'[j] = lastWrite[j]]_vars

\* C22 witness: the text-to-speech job 1 went through its 'processing' writes
\* and was marked 'completed'; job 2 was marked 'failed' by the except branch
\* after a 'processing' write; both background jobs have returned.
C22_Witness ==
    /\ loc[1].pc = "returned"
    /\ jobStore[1].status = "completed"
    /\ jobStore[1].progress = "Generating audio completed successfully."
    /\ loc[2].pc = "returned"
    /\ jobStore[2].status = "failed"
    /\ jobStore[2].error = "exception"

Selected(e) ==
    CASE e.method = "OPTIONS" -> "preflight"
      [] e.topAction = "process_job" -> "process_job"
      [] e.body = "dict" /\ e.bodyAction = "job_status" -> "job_status"
      [] e.body = "dict" /\ e.bodyAction \in {"check_models", "diagnostics"} -> "check_models"
      [] OTHER -> "crawl"

\* What each operation may do.
OpsOf(sel) ==
    CASE sel = "preflight" -> {}
      [] sel = "process_job" -> {"process_job"}
      [] sel = "job_status" -> {"get_job"}
      [] sel = "check_models" -> {"check_models"}
      [] OTHER -> {"fetch", "parse", "upload", "put_job", "summarize"}

OpsDone == {ops[i] : i \in 1..Len(ops)}

\* A job_status request: the action in an API-Gateway JSON body, or a field of
\* a direct-invocation event.
IsJobStatusRequest(e) ==
    /\ e.method # "OPTIONS"
    /\ e.topAction # "process_job"
    /\ \/ e.body = "dict" /\ e.bodyAction = "job_status"
       \/ e.body = "absent" /\ e.topAction = "job_status"

\* The answer the status-check path is said to give.
StatusAnswer(e, g) ==
    CASE ~e.hasJobId -> 400
      [] ~e.bucket -> 500
      [] g = "NoSuchKey" -> 404
      [] g = "ok" -> 200
      [] OTHER -> 500

\* C3 (as stated): a job_status request is answered by the status check alone
\* (no fetch, no write, no model call): 400 without job_id, 500 without a
\* bucket, 404 without a record, 500 on another storage error, 200 otherwise.
C3_JobStatusAnsweredByStatusCheck ==
    (dpc = "done" /\ IsJobStatusRequest(ev)) =>
        /\ OpsDone \subseteq {"get_job"}
        /\ ~out.raised
        /\ out.status = StatusAnswer(ev, got)

\* C6 (as stated): for every event but a background 'process_job' invocation
\* the handler returns, never raises, a response with a statusCode, the CORS
\* headers and a string body.
C6_AlwaysProxyResponse ==
    (dpc = "done" /\ Selected(ev) # "process_job") =>
        /\ ~out.raised
        /\ out.status # 0
        /\ out.cors
        /\ out.strBody

\* C7 (as stated): the handler performs only the operation its event selects
\* by the precedence preflight, process_job, job_status, check_models /
\* diagnostics, crawl; an earlier operation is never followed by a later one.
C7_OneOperationByPrecedence == OpsDone \subseteq OpsOf(Selected(ev))

\* ------------------------------------------------------------------ claims: video assembly
\* s is what is left of t after dropping some of its elements.
RECURSIVE IsSubSeq(_, _)
IsSubSeq(s, t) ==
    IF s = <<>> THEN TRUE
    ELSE IF t = <<>> THEN FALSE
    ELSE IF Head(s) = Head(t) THEN IsSubSeq(Tail(s), Tail(t))
    ELSE IsSubSeq(s, Tail(t))

\* The segments the loop has taken so far, in the order it took them.
Processed == SubSeq(SortByOrder(highlights_data), 1, run.i)

\* C8 (as stated): the segments are processed in non-decreasing 'order' (those
\* without one last, ties in manifest order), and the final video shows the
\* rendered segments in that same order.
C8_SegmentsInOrder ==
    /\ \A a, b \in 1..Len(Processed) :
         a < b =>
           LET x == highlights_data[Processed[a]]
               y == highlights_data[Processed[b]]
           IN /\ SortKey(x) <= SortKey(y)
              /\ SortKey(x) = SortKey(y) => Processed[a] < Processed[b]
    /\ fs.final => IsSubSeq(finalVideo, run.successful_audio_keys)

\* C9 (as stated): when the handler returns "created and archived
\* successfully", the manifest and the audio of every segment in the video are
\* gone from their original keys and are under processed-input/<id>/.
C9_ArchivedWhenReportedSo ==
    ended = "archived" =>
        /\ ~s3.manifest
        /\ s3.archManifest
        /\ \A p \in 1..Len(finalVideo) :
             /\ finalVideo[p] \notin s3.audio
             /\ finalVideo[p] \in s3.archAudio

\* C10 (as stated): on every exit (success, no video, exception) no file the
\* handler created is left under /tmp.
C10_TmpCleanOnExit == vpc = "exit" => fs = EmptyTmp

\* C25 (as stated): no two entries of intermediate_video_paths name the same
\* file, so every rendered segment has an intermediate video of its own.
C25_OneFilePerRenderedSegment ==
    LET paths == run.intermediate_video_paths
    IN \A p, q \in 1..Len(paths) : p # q => paths[p] # paths[q]

\* ------------------------------------------------------------------ claims: synchronous crawl
\* C11: when put_object raised a ClientError for some resource of a
\* synchronous crawl, a summarization helper is still called and the response
\* is 200 with the parsed page.
C11_UploadFailureDoesNotBreakSummary ==
    (cpc = "done" /\ failed # {}) =>
        /\ calls # <<>>
        /\ cresp.status = 200
        /\ cresp.content

\* C11 witness: a crawl is answered after the upload of each of two
\* resources failed.
C11_Witness ==
    /\ cpc = "done"
    /\ Cardinality(failed) >= 2
    /\ stored = {}
    /\ cresp.status = 200

\* C12 (as stated): every resource stored in the bucket during a full crawl
\* is in the response's uploaded_media with its source_url, its key and a
\* presigned url.
C12_StoredResourcesListed ==
    cpc = "done" =>
        \A u \in stored :
            \E n \in 1..Len(cresp.uploaded_media) : cresp.uploaded_media[n] = UploadedRef(u)

\* The calls of summarize_page.
PageCalls == SelectSeq(calls, LAMBDA c : c.fn = "summarize_page")

\* C13 (as stated): with summarize_page the only helper it is called exactly
\* once per synchronous crawl, with media_refs whenever the list is not empty.
C13_SummarizePageOnce ==
    (cpc = "done" /\ req.helpers = "page") =>
        /\ Len(PageCalls) = 1
        /\ media_refs # <<>> => PageCalls[1].media_refs

\* ------------------------------------------------------------------ claims: caption batch
\* C14: the returned list is as long as the input, and entry i is what the
\* task of input i produced (its result, its error record, or the error
\* record built for its exception), whatever the order of completion.
C14_ResultsInInputOrder ==
    bpc = "returned" =>
        /\ Len(results) = Len(s3_uris)
        /\ \A i \in 1..Len(s3_uris) :
             /\ results[i] # None
             /\ results[i] = Stored(i)
             /\ results[i].s3_uri = s3_uris[i]

\* C14 witness: a batch of three is returned after the task of the second
\* input was yielded first and that of the first input last.
C14_Witness ==
    /\ bpc = "returned"
    /\ yielded = <<2, 3, 1>>
    /\ results[2] = CaptionResult(s3_uris[2], 2)
    /\ results[1] = CaptionError(s3_uris[1])

\* ------------------------------------------------------------------ claims: bullet summary
\* C15 (as stated): summarize_and_select_images never raises and always
\* returns a list of bullets, the empty list when every invocation failed.
C15_AlwaysReturnsList ==
    spc = "returned" =>
        /\ returned \in {"empty_list", "bullets"}
        /\ model_out = "none" => returned = "empty_list"

\* ------------------------------------------------------------------ claims: wiki credentials
\* No credentials can be obtained: none in the environment, and no secret
\* name, no boto3, an empty secret or an error of Secrets Manager.
NothingObtainable ==
    /\ LoadFromEnv(environ) = <<"None">>
    /\ \/ ~environ.secret_name
       \/ ~boto3
       \/ secret \in {<<"empty">>, <<"error">>}

\* A call is made in this step.
IsCall == ncalls' = ncalls + 1

\* C16: no call raises, and an uncached call made when no credentials can be
\* obtained returns the empty dict.
C16_NeverRaises ==
    [][IsCall =>
         /\ ~last'.raised
         /\ (cached_secret = NotCached /\ NothingObtainable) => last'.value = Empty]_vars

\* C16 witness: a call that asked Secrets Manager, got an error, and returned
\* the empty dict.
C16_Witness ==
    /\ ncalls = 1
    /\ sm_calls = 1
    /\ secret = <<"error">>
    /\ last = Returned(Empty)

\* C17 (as stated): when both Secrets Manager and the environment hold
\* credentials an uncached call returns those of Secrets Manager; the
\* environment serves only when Secrets Manager yields nothing.
C17_SecretsManagerFirst ==
    [][(IsCall /\ cached_secret = NotCached /\ boto3 /\ environ.secret_name
          /\ LoadFromSecret(secret) # Empty)
         => last'.value = LoadFromSecret(secret)]_vars

\* C18: every call after the first returns what the first returned, and the
\* environment and Secrets Manager are asked by the first call only.
C18_CachedAfterFirstCall ==
    first # NotCalled =>
        /\ last = first
        /\ env_reads = 1
        /\ sm_calls <= 1

\* C18 witness: a second call returned the empty dict cached by the first,
\* although the environment holds credentials by now.
C18_Witness ==
    /\ ncalls = 2
    /\ first = Returned(Empty)
    /\ last = Returned(Empty)
    /\ LoadFromEnv(environ) # <<"None">>
    /\ env_reads = 1

\* ------------------------------------------------------------------ claims: page fetch
\* C19 (as stated): fetch_html ends having issued at most max_retries + 1 GET
\* requests for the page url; it sleeps backoff * n after the n-th failure of
\* the loop, and returns None right after the last one.
C19_AtMostRetriesPlusOneGets ==
    /\ gets <= fargs.max_retries + 1
    /\ \A n \in 1..Len(slept) : slept[n] = fargs.backoff * n
    /\ Len(slept) <= fargs.max_retries
    /\ (fpc = "returned" /\ attempt > fargs.max_retries) => fret = "None"

\* ------------------------------------------------------------------ claims: archival order
\* C20: until the final video is uploaded the manifest and every audio object
\* are at their original keys and nothing is in the archive; so they are when
\* the handler ends with an exception of rendering, combining or uploading.
C20_NoArchivalBeforeUpload ==
    /\ ~s3.output => s3 = BucketOf(highlights_data)
    /\ ended = "raised" =>
          /\ s3.manifest
          /\ s3.audio = BucketOf(highlights_data).audio
          /\ ~s3.archManifest
          /\ s3.archAudio = {}

\* C20 witness: two segments were rendered and combined, the upload of the
\* final video failed, and the handler ended with the exception.
C20_Witness ==
    /\ ended = "raised"
    /\ Len(run.successful_audio_keys) = 2
    /\ finalVideo # <<>>
    /\ ~s3.output
    /\ s3.audio = {1, 2}

\* ------------------------------------------------------------------ claims: object move
\* C21: an object that was at old_key when move_s3_object was called is, at
\* every moment of the call, at old_key or at new_key with the same body, and
\* old_key is empty only when new_key holds it; the call ends by returning,
\* and a call that did not finish the move has printed the warning.
C21_CopyBeforeDelete ==
    /\ margs.body # Absent =>
          /\ objects[margs.old_key] = margs.body \/ objects[margs.new_key] = margs.body
          /\ objects[margs.old_key] = Absent => objects[margs.new_key] = margs.body
    /\ mpc = "done" =>
          /\ mret = "returned"
          /\ (objects[margs.old_key] # Absent \/ margs.body = Absent)
                => mlog[Len(mlog)] = "WARNING"

\* C21 witness: the object was copied and then deleted at old_key, so it is at
\* new_key only, and the call returned after "Successfully archived".
C21_Witness ==
    /\ mpc = "done"
    /\ margs.body # Absent
    /\ objects[margs.old_key] = Absent
    /\ objects[margs.new_key] = margs.body
    /\ mlog = <<"Archiving", "Successfully archived">>
    /\ mret = "returned"

\* ------------------------------------------------------------------ claims: text chunking
\* C26 (as stated): for arguments that chunk_text accepts, the returned chunks
\* cover the text: none for the empty text; else the first starts at 0, each
\* next one starts no later than the one before it ends, the last ends at
\* len(text), and every chunk is text[start:end] with end - start <= chunk_size.
C26_ChunksCoverText ==
    kpc = "returned" =>
        IF text = <<>> THEN chunks = <<>>
        ELSE /\ chunks # <<>>
             /\ chunks[1].start = 0
             /\ \A n \in 2..Len(chunks) : chunks[n].start <= chunks[n - 1].end
             /\ chunks[Len(chunks)].end = Len(text)
             /\ \A n \in 1..Len(chunks) :
                  /\ chunks[n].chunk = Slice(text, chunks[n].start, chunks[n].end)
                  /\ chunks[n].end - chunks[n].start <= chunk_size

====
